---- MODULE Spec2Model ----
(***************************************************************************)
(* Verification model of schemmy/backtest.                                 *)
(*                                                                         *)
(* Part 1: the per-symbol trading strategy TestStrategy of                 *)
(* run/shaofu_single_backtest.py.  The backtrader engine calls next() once *)
(* per bar; the broker calls notify_order() with the status of an order    *)
(* the strategy made.  Bars and notifications interleave freely, and the   *)
(* broker may report any outcome for any order alive: Submitted and        *)
(* Accepted while nothing of the order has executed, then Partial,         *)
(* Completed, Canceled, Margin, Rejected or Expired.                       *)
(*                                                                         *)
(* Prices are integers; stop_price is kept in units of 1/PriceScale so     *)
(* that close * (1.0 - 0.03) is exact.  Position and order sizes are       *)
(* integer units; a buy from a flat position gets its size from the sizer  *)
(* (cash / close), drawn here from BuySizes.  buyprice, buycomm and        *)
(* bar_executed are written by notify_order and never read by the          *)
(* strategy; they are not modelled.  pre and last record the last handler  *)
(* call so that properties of one call are state predicates.               *)
(***************************************************************************)
EXTENDS Integers, Sequences, FiniteSets, Bags, TLC

\* ------------------------------------------------------------------ bounds
\* largest size the sizer hands to buy()
MaxSize == 3
\* cap of the consecutive-day counters
MaxDays == 3
\* cap of the number of orders alive at the broker
MaxOrders == 2
\* deepest short position from which bars are still evaluated
MaxShort == 1

\* ------------------------------------------------------- program constants
\* params: ('stoploss', 0.03), in percent
stoploss == 3
\* stop_price is stored multiplied by PriceScale (0.03 = stoploss / PriceScale)
PriceScale == 100
\* trend-day confirmation count of the two exit rules
TrendDays == 2

\* --------------------------------------------------------- input domains
\* kdj.l.j[0] of a bar
JValues == {-5, 0}
\* dataclose[0] of a bar
Closes == {96, 100}
\* bbi.l.bbi[0] of a bar
Bbis == {95, 97}
\* result of the PercentSizer for a buy from a flat position (cash / close)
BuySizes == 1..MaxSize

\* Python None
None == "None"
\* self.stop_price holding None (prices are positive, so no price is -1)
StopNone == -1
\* self.stop_price not yet assigned: __init__ does not set it
StopUnset == -2
\* self.order holding a reference to an order object
SomeOrder == "Order"

VARIABLES
    order,            \* self.order: None or a reference to an order
    stoporder,        \* self.stoporder
    stop_price,       \* self.stop_price, scaled by PriceScale
    days_above_bbi,   \* self.days_above_bbi
    days_below_bbi,   \* self.days_below_bbi
    has_above_bbi,    \* self.has_above_bbi
    sell_count,       \* self.sell_count
    position,         \* self.position.size, kept by the broker
    orders,           \* bag of the orders alive at the broker
    raised,           \* an exception left next() or notify_order()
    pre,              \* strategy state at entry of the last handler call
    last,             \* the last handler call and the order intent it emitted
    trims,            \* partial-trim sells made since the last entry or flat
    bar,              \* index of the last bar of the scripted bar sequence
    events,           \* orders made along the scripted bar sequence
    stock_files,      \* pick_stocks: the sorted list of stock files
    file_idx,         \* pick_stocks: position of the for loop in stock_files
    selected_stocks,  \* pick_stocks: the list it builds and returns
    stock_info,       \* pick_stocks: what process_stock_file returned last
    conditions,       \* pick_stocks: thresholds and conditions of the last file
    df_results,       \* save_results: the rows of the sorted frame
    txt_lines,        \* save_results: the lines written to the symbol list
    pick_pc,          \* where the stock picker is
    calculator,       \* KDJPandas: self.pk, self.pd, self.pdslow
    df,               \* the caller's frame given to KDJPandas.calculate
    out,              \* what KDJPandas.calculate returned last
    runs,             \* calls of KDJPandas.calculate made on df
    data,             \* BBI: the closes of the data feed
    bbi_line,         \* BBI: the line lines.bbi over the data feed
    mv_order,         \* mv.py: self.order, the id of an order or None
    mv_stoporder,     \* mv.py: self.stoporder, the id of an order or None
    mv_days_above_bbi, \* mv.py: self.days_above_bbi
    mv_position,      \* mv.py: the broker's position.size
    mv_pending,       \* mv.py: the orders waiting at the broker, oldest first
    mv_notes,         \* mv.py: the notifications the broker has queued
    mv_phase,         \* mv.py: what the engine does next on the bar
    mv_ids,           \* mv.py: orders made so far
    tickers,          \* fetcher: the tickers of the call in progress
    futures,          \* fetcher: the state of the future of each ticker
    successful_symbols, \* fetcher: the list the call builds
    failed_symbols,   \* fetcher: the list the call builds
    completed,        \* fetcher: the counter of the collecting loop
    max_workers,      \* fetcher: threads of the pool
    fetch_pc,         \* fetcher: where main, or a direct caller, is
    csv_tickers,      \* fetcher: the tickers the caller started with
    downloads,        \* fetcher: the download attempts made, by round
    actor,            \* fetcher: the thread that took the last step
    main_pc,          \* shaofu_pick.main: where it is
    data_dir          \* shaofu_pick.main: the files on disk, or no directory

\* the scripted bar sequence
scenvars == <<bar, events>>

\* the stock picker
pickvars == <<stock_files, file_idx, selected_stocks, stock_info, conditions,
              df_results, txt_lines, pick_pc>>

\* the indicators
indvars == <<calculator, df, out, runs, data, bbi_line>>

\* the strategy of mv.py and its broker
mvvars == <<mv_order, mv_stoporder, mv_days_above_bbi, mv_position,
            mv_pending, mv_notes, mv_phase, mv_ids>>

\* the downloader
fetchvars == <<tickers, futures, successful_symbols, failed_symbols,
               completed, max_workers, fetch_pc, csv_tickers, downloads,
               actor>>

\* main of the stock picker
mainvars == <<main_pc, data_dir>>

vars == <<order, stoporder, stop_price, days_above_bbi, days_below_bbi,
          has_above_bbi, sell_count, position, orders, raised, pre, last,
          trims, bar, events, stock_files, file_idx, selected_stocks,
          stock_info, conditions, df_results, txt_lines, pick_pc,
          calculator, df, out, runs, data, bbi_line, mv_order, mv_stoporder,
          mv_days_above_bbi, mv_position, mv_pending, mv_notes, mv_phase,
          mv_ids, tickers, futures, successful_symbols, failed_symbols,
          completed, max_workers, fetch_pc, csv_tickers, downloads, actor,
          main_pc, data_dir>>

\* --------------------------------------------------------------- helpers
Abs(x) == IF x < 0 THEN -x ELSE x

\* int(x / 2): true division, then truncation towards zero
IntHalf(x) == IF x >= 0 THEN x \div 2 ELSE -((-x) \div 2)

\* the stop computed without the stop-loss fraction
StopPriceOf_NoFraction(close) == close * PriceScale

\* self.dataclose[0] * (1.0 - self.params.stoploss), scaled by PriceScale
StopPriceOf(close) == close * (PriceScale - stoploss)

\* truth value of self.stop_price (None and 0 are false)
Truthy(sp) == sp # StopNone /\ sp # StopUnset /\ sp # 0

\* the comparison of line 157 turned around
BelowStop_Reversed(close, sp) == close * PriceScale > sp

\* close < self.stop_price
BelowStop(close, sp) == close * PriceScale < sp

\* the order object created by Strategy.buy / Strategy.sell, which hand
\* abs(size) to the broker; size is the signed change of the position still
\* to be executed, positive for a buy; status is "Open" until a part of the
\* order has executed and "Partial" from then on
NewOrder(isbuy, size) ==
    [size |-> IF isbuy THEN Abs(size) ELSE -Abs(size), status |-> "Open"]

\* order.isbuy()
IsBuy(o) == o.size > 0

\* number of orders alive
Alive == BagCardinality(orders)

\* snapshot of the strategy fields taken when a handler is entered
Snapshot ==
    [order |-> order, position |-> position, sell_count |-> sell_count,
     days_above_bbi |-> days_above_bbi, days_below_bbi |-> days_below_bbi,
     stop_price |-> stop_price, norders |-> Alive]

\* a call of next() on a bar (dataclose[0], bbi.l.bbi[0], kdj.l.j[0]): the
\* branch it took, the size it handed to buy/sell, whether an order was made
BarEvent(close, b, jv, rule, size, issued) ==
    [op |-> "next", rule |-> rule, size |-> size, issued |-> issued,
     dataclose |-> close, bbi |-> b, j |-> jv]

\* a call of notify_order(): the status reported and the size executed
Event(op, size) ==
    [op |-> op, rule |-> "none", size |-> size, issued |-> FALSE,
     dataclose |-> 0, bbi |-> 0, j |-> 0]

\* the bag of alive orders once order o is dead
Without(o) == orders (-) SetToBag({o})

\* the bag of alive orders with o replaced by its updated record
Updated(o, n) == Without(o) (+) SetToBag({n})

\* what process_stock_file returns for a file it cannot evaluate
NoInfo ==
    [none |-> TRUE, symbol |-> <<>>, file_path |-> <<>>,
     turnover_mv5 |-> [w |-> 0, m |-> 0],
     k_value |-> 0, d_value |-> 0, j_value |-> 0,
     j_less_than_zero |-> FALSE]

\* the loop body has computed no threshold and no condition
NoConditions ==
    [turnover_threshold |-> 0, condition_1 |-> FALSE,
     j_threshold |-> 0, condition_2 |-> FALSE]

\* the stock picker has not been started
PickIdle ==
    /\ stock_files = <<>>
    /\ file_idx = 0
    /\ selected_stocks = <<>>
    /\ stock_info = NoInfo
    /\ conditions = NoConditions
    /\ df_results = <<>>
    /\ txt_lines = <<>>
    /\ pick_pc = "idle"

\* kdj.py lines 45, 54-56: the default periods of KDJPandas
DefaultCalculator == [pk |-> 9, pd |-> 3, pdslow |-> 3]

\* a frame without columns and rows
EmptyFrame == [cols |-> {}, rows |-> <<>>]

\* KDJPandas.calculate has not been called
NoOut == [raised |-> FALSE, cols |-> {}, rows |-> <<>>]

\* no indicator has been given anything to compute
IndIdle ==
    /\ calculator = DefaultCalculator
    /\ df = EmptyFrame
    /\ out = NoOut
    /\ runs = 0
    /\ data = <<>>
    /\ bbi_line = <<>>

\* None in self.order and self.stoporder of mv.py; orders have ids from 1
MvNone == 0

\* mv.py lines 30-48: the strategy after __init__, nothing at the broker
MvIdle ==
    /\ mv_order = MvNone
    /\ mv_stoporder = MvNone
    /\ mv_days_above_bbi = 0
    /\ mv_position = 0
    /\ mv_pending = <<>>
    /\ mv_notes = <<>>
    /\ mv_phase = "idle"
    /\ mv_ids = 0

\* no download has been asked for
FetchIdle ==
    /\ tickers = <<>>
    /\ futures = <<>>
    /\ successful_symbols = <<>>
    /\ failed_symbols = <<>>
    /\ completed = 0
    /\ max_workers = 1
    /\ fetch_pc = "idle"
    /\ csv_tickers = <<>>
    /\ downloads = EmptyBag
    /\ actor = "caller"

\* main of the stock picker has not been started
MainIdle ==
    /\ main_pc = "idle"
    /\ data_dir = [exists |-> FALSE, files |-> {}]

\* ------------------------------------------------------------------ Init
\* the strategy after __init__, before the first bar
StrategyInit ==
    /\ order = None
    /\ stoporder = None
    /\ stop_price = StopUnset
    /\ days_above_bbi = 0
    /\ days_below_bbi = 0
    /\ has_above_bbi = FALSE
    /\ sell_count = 0
    /\ position = 0
    /\ orders = EmptyBag
    /\ raised = FALSE
    /\ pre = Snapshot
    /\ last = Event("init", 0)
    /\ trims = 0
    /\ bar = -1
    /\ events = <<>>

Init ==
    /\ StrategyInit
    /\ PickIdle
    /\ IndIdle
    /\ MvIdle
    /\ FetchIdle
    /\ MainIdle

\* ---------------------------------------------------------------- next()
\* the counter of lines 121-124 without its reset
AboveAfter_NoReset(close, b) ==
    IF position # 0 /\ close > b THEN days_above_bbi + 1 ELSE days_above_bbi

\* lines 121-124: the above-BBI day counter after this bar
AboveAfter(close, b) ==
    IF position # 0 /\ close > b THEN days_above_bbi + 1 ELSE 0

\* the counter of lines 127-130 without the sell_count > 0 condition
BelowAfter_AnyTime(close, b) ==
    IF position # 0 /\ close < b THEN days_below_bbi + 1 ELSE 0

\* lines 127-130: the below-BBI day counter after this bar
BelowAfter(close, b) ==
    IF position # 0 /\ sell_count > 0 /\ close < b
    THEN days_below_bbi + 1 ELSE 0

\* the branches of lines 147-159 with the stop-loss tested before the
\* trend-reversal exit
ExitRule_StopFirst(above, below, close) ==
    IF above >= TrendDays /\ sell_count = 0 THEN "partial-trim"
    ELSE IF Truthy(stop_price) /\ BelowStop(close, stop_price) THEN "stop-loss"
    ELSE IF below >= TrendDays THEN "trend-exit"
    ELSE "none"

\* the branches of lines 147-159 with the trim not limited to once
ExitRule_TrimAgain(above, below, close) ==
    IF above >= TrendDays THEN "partial-trim"
    ELSE IF below >= TrendDays THEN "trend-exit"
    ELSE IF Truthy(stop_price) /\ BelowStop(close, stop_price) THEN "stop-loss"
    ELSE "none"

\* lines 147-159: the exit branch taken with an open position
ExitRule(above, below, close) ==
    IF above >= TrendDays /\ sell_count = 0 THEN "partial-trim"
    ELSE IF below >= TrendDays THEN "trend-exit"
    ELSE IF Truthy(stop_price) /\ BelowStop(close, stop_price) THEN "stop-loss"
    ELSE "none"

\* size handed to the broker by the exit branch: int(position.size / 2) for
\* the trim, the sizer's position.size for self.sell()
ExitSize(rule) ==
    IF rule = "partial-trim" THEN IntHalf(position)
    ELSE IF rule \in {"trend-exit", "stop-loss"} THEN position
    ELSE 0

\* line 117: if self.order
Pending_NoGuard == FALSE

Pending == order # None

\* lines 117-118: an order is pending, the bar is not evaluated
NextPending(close, b, jv) ==
    /\ Pending
    /\ last' = BarEvent(close, b, jv, "none", 0, FALSE)
    /\ UNCHANGED <<order, stoporder, stop_price, days_above_bbi,
                   days_below_bbi, has_above_bbi, sell_count, position,
                   orders, raised, trims>>

\* the entry branch taken with a long position as well
NextFlat_AnyPosition(close, b, jv) ==
    /\ ~Pending
    /\ position >= 0
    /\ days_above_bbi' = 0
    /\ IF jv < 0
       THEN \E size \in BuySizes :
              /\ Alive < MaxOrders
              /\ orders' = orders (+) SetToBag({NewOrder(TRUE, size)})
              /\ order' = SomeOrder
              /\ has_above_bbi' = FALSE
              /\ sell_count' = 0
              /\ days_below_bbi' = 0
              /\ stop_price' = StopPriceOf(close)
              /\ last' = BarEvent(close, b, jv, "entry", size, TRUE)
              /\ trims' = 0
       ELSE /\ days_below_bbi' = 0
            /\ last' = BarEvent(close, b, jv, "none", 0, FALSE)
            /\ UNCHANGED <<order, orders, has_above_bbi, sell_count,
                           stop_price, trims>>
    /\ UNCHANGED <<stoporder, position, raised>>

\* lines 133-144: not in the market
NextFlat(close, b, jv) ==
    /\ ~Pending
    /\ position = 0
    /\ days_above_bbi' = 0
    /\ IF jv < 0
       THEN \E size \in BuySizes :
              /\ Alive < MaxOrders
              /\ orders' = orders (+) SetToBag({NewOrder(TRUE, size)})
              /\ order' = SomeOrder
              /\ has_above_bbi' = FALSE
              /\ sell_count' = 0
              /\ days_below_bbi' = 0
              /\ stop_price' = StopPriceOf(close)
              /\ last' = BarEvent(close, b, jv, "entry", size, TRUE)
              /\ trims' = 0
       ELSE /\ days_below_bbi' = 0
            /\ last' = BarEvent(close, b, jv, "none", 0, FALSE)
            /\ UNCHANGED <<order, orders, has_above_bbi, sell_count,
                           stop_price, trims>>
    /\ UNCHANGED <<stoporder, position, raised>>

\* lines 146-165: in the market
NextLong(close, b, jv) ==
    LET above == AboveAfter(close, b)
        below == BelowAfter(close, b)
        rule  == ExitRule(above, below, close)
        size  == ExitSize(rule)
        \* Strategy.sell returns None for a size of 0
        made  == rule # "none" /\ size # 0
        cnt   == IF rule = "partial-trim" THEN sell_count + 1 ELSE sell_count
        \* line 157 reads self.stop_price
        reads == rule \in {"stop-loss", "none"}
    IN
    /\ ~Pending
    /\ position # 0
    /\ position <= MaxSize
    /\ position >= -MaxShort
    /\ above <= MaxDays
    /\ below <= MaxDays
    /\ made => Alive < MaxOrders
    /\ IF reads /\ stop_price = StopUnset
       THEN /\ raised' = TRUE
            /\ days_above_bbi' = above
            /\ days_below_bbi' = below
            /\ last' = BarEvent(close, b, jv, "error", 0, FALSE)
            /\ UNCHANGED <<order, orders, sell_count, has_above_bbi, trims>>
       ELSE /\ raised' = raised
            /\ trims' = IF made /\ rule = "partial-trim"
                        THEN trims + 1 ELSE trims
            /\ orders' = IF made
                         THEN orders (+) SetToBag({NewOrder(FALSE, size)})
                         ELSE orders
            /\ order' = IF made THEN SomeOrder ELSE None
            /\ last' = BarEvent(close, b, jv, rule, size, made)
            \* lines 161-165: position.size cannot be 0 in this branch
            /\ IF position = 0
               THEN /\ sell_count' = 0
                    /\ has_above_bbi' = FALSE
                    /\ days_below_bbi' = 0
                    /\ days_above_bbi' = 0
               ELSE /\ sell_count' = cnt
                    /\ has_above_bbi' = has_above_bbi
                    /\ days_below_bbi' = below
                    /\ days_above_bbi' = above
    /\ UNCHANGED <<stoporder, stop_price, position>>

\* the engine moves to the next bar and calls next()
NextBar ==
    \E close \in Closes, b \in Bbis, jv \in JValues :
        /\ ~raised
        /\ pre' = Snapshot
        /\ \/ NextPending(close, b, jv)
           \/ NextFlat(close, b, jv)
           \/ NextLong(close, b, jv)
        /\ UNCHANGED scenvars
        /\ UNCHANGED pickvars
        /\ UNCHANGED indvars
        /\ UNCHANGED <<mvvars, fetchvars, mainvars>>

\* -------------------------------------------------------- notify_order()
\* the handler with the reset of lines 88-91 run on a cancellation as well
notify_order_ResetOnCancel(status, o) ==
    IF status \in {"Submitted", "Accepted"}
    THEN UNCHANGED <<order, stoporder, stop_price>>
    ELSE /\ IF status # "Completed" \/ (~IsBuy(o) /\ stoporder # None)
            THEN /\ stoporder' = None
                 /\ stop_price' = StopNone
            ELSE /\ stoporder' = stoporder
                 /\ stop_price' = stop_price
         /\ order' = None

\* the handler with the reset of lines 88-91 run on every completed sell
notify_order_ResetOnSell(status, o) ==
    IF status \in {"Submitted", "Accepted"}
    THEN UNCHANGED <<order, stoporder, stop_price>>
    ELSE /\ IF status = "Completed" /\ ~IsBuy(o)
            THEN /\ stoporder' = None
                 /\ stop_price' = StopNone
            ELSE /\ stoporder' = stoporder
                 /\ stop_price' = stop_price
         /\ order' = None

\* lines 63-103: the handler, called with the status the broker reports for
\* order o.  self.stoporder is never assigned an order in this strategy, so
\* the cancel() of line 89 has no order to act on.
notify_order(status, o) ==
    IF status \in {"Submitted", "Accepted"}
    THEN UNCHANGED <<order, stoporder, stop_price>>
    ELSE /\ IF status = "Completed" /\ ~IsBuy(o) /\ stoporder # None
            THEN /\ stoporder' = None
                 /\ stop_price' = StopNone
            ELSE /\ stoporder' = stoporder
                 /\ stop_price' = stop_price
         /\ order' = None

\* what every notification leaves alone
NotifyFrame ==
    UNCHANGED <<days_above_bbi, days_below_bbi, has_above_bbi, sell_count,
                raised>>

Sign(x) == IF x < 0 THEN -1 ELSE 1

\* the broker reports that it took the order in; nothing has executed yet
BrokerSubmit(o) ==
    /\ o.status = "Open"
    /\ orders' = orders
    /\ position' = position
    /\ notify_order("Submitted", o)
    /\ last' = Event("Submitted", 0)

BrokerAccept(o) ==
    /\ o.status = "Open"
    /\ orders' = orders
    /\ position' = position
    /\ notify_order("Accepted", o)
    /\ last' = Event("Accepted", 0)

\* part of the order executes; the order stays alive
BrokerPartial(o) ==
    /\ \E f \in 1..(Abs(o.size) - 1) :
         LET d == Sign(o.size) * f IN
         /\ orders' = Updated(o, [size |-> o.size - d, status |-> "Partial"])
         /\ position' = position + d
         /\ last' = Event("Partial", d)
    /\ notify_order("Partial", o)

\* the rest of the order executes
BrokerComplete(o) ==
    /\ orders' = Without(o)
    /\ position' = position + o.size
    /\ notify_order("Completed", o)
    /\ last' = Event("Completed", o.size)

BrokerCancel(o) ==
    /\ orders' = Without(o)
    /\ position' = position
    /\ notify_order("Canceled", o)
    /\ last' = Event("Canceled", 0)

\* not enough cash to execute
BrokerMargin(o) ==
    /\ o.status = "Open"
    /\ orders' = Without(o)
    /\ position' = position
    /\ notify_order("Margin", o)
    /\ last' = Event("Margin", 0)

BrokerReject(o) ==
    /\ o.status = "Open"
    /\ orders' = Without(o)
    /\ position' = position
    /\ notify_order("Rejected", o)
    /\ last' = Event("Rejected", 0)

BrokerExpire(o) ==
    /\ orders' = Without(o)
    /\ position' = position
    /\ notify_order("Expired", o)
    /\ last' = Event("Expired", 0)

\* a fill that brings the position back to 0 ends the position
TrimsAfterFill == trims' = IF position # 0 /\ position' = 0 THEN 0 ELSE trims

\* the broker reports on one of the orders alive
Notify ==
    \E o \in BagToSet(orders) :
        /\ ~raised
        /\ pre' = Snapshot
        /\ NotifyFrame
        /\ \/ BrokerSubmit(o)
           \/ BrokerAccept(o)
           \/ BrokerPartial(o)
           \/ BrokerComplete(o)
           \/ BrokerCancel(o)
           \/ BrokerMargin(o)
           \/ BrokerReject(o)
           \/ BrokerExpire(o)
        /\ TrimsAfterFill
        /\ UNCHANGED scenvars
        /\ UNCHANGED pickvars
        /\ UNCHANGED indvars
        /\ UNCHANGED <<mvvars, fetchvars, mainvars>>

Next == NextBar \/ Notify

Spec == Init /\ [][Next]_vars

\* ===================================================================
\* Properties of the strategy
\* ===================================================================
\* the last step was a call of next()
IsBar == last.op = "next"

\* the last step was a call of next() that passed the pending-order guard
Evaluated == IsBar /\ pre.order = None /\ last.rule # "error"

\* an order changing the position by sz has just been made
Made(sz) == BagIn([size |-> sz, status |-> "Open"], orders)

\* the three exit conditions of the bar just evaluated, stated on the
\* counters after their update and on the bar's close
TrimCond == days_above_bbi >= 2 /\ pre.sell_count = 0

TrendCond == days_below_bbi >= 2

StopCond ==
    /\ pre.stop_price > 0
    /\ last.dataclose * 100 < pre.stop_price

\* C1: in every reachable state at most one order issued by the strategy is
\* outstanding (issued and not yet completed, cancelled, rejected or
\* expired).
C1_AtMostOneOutstanding == Alive <= 1

\* C2: whenever self.order is set when next() is called on a bar, that call
\* issues no buy and no sell, whatever j, close, bbi, stop_price and the
\* counters are.
C2_NoOrderWhilePending ==
    (IsBar /\ pre.order # None) =>
        /\ ~last.issued
        /\ Alive = pre.norders
        /\ order = pre.order

\* a bar with j < 0 met a flat strategy whose buy was still pending
C2_Witness ==
    /\ IsBar
    /\ pre.order # None
    /\ pre.position = 0
    /\ last.j < 0

\* C3: on a bar evaluated with position_size = 0 and no pending order a buy
\* is issued iff j < 0; after it sell_count = 0, stop_price = close * (1 -
\* 0.03) and both trend-day counters are 0.
C3_EntryRule ==
    (Evaluated /\ pre.position = 0) =>
        /\ last.issued <=> last.j < 0
        /\ last.issued =>
             /\ Alive = pre.norders + 1
             /\ last.size > 0
             /\ Made(last.size)
             /\ order # None
             /\ sell_count = 0
             /\ stop_price = last.dataclose * 100 - last.dataclose * 3
             /\ days_above_bbi = 0
             /\ days_below_bbi = 0
        /\ ~last.issued => Alive = pre.norders

\* a re-entry: the buy was issued from a flat state that still carried the
\* sell_count and stop_price of the previous position
C3_Witness ==
    /\ Evaluated
    /\ pre.position = 0
    /\ last.issued
    /\ pre.sell_count = 1
    /\ pre.days_below_bbi > 0
    /\ pre.stop_price > 0
    /\ stop_price # pre.stop_price

\* C4 as stated: on a bar evaluated with an open position, no pending order
\* and close < stop_price, a sell of the entire remaining position is issued
\* on that bar, whatever the counters and partial_sell_done are.
C4_StopLossRegardless ==
    (Evaluated /\ pre.position # 0 /\ StopCond) =>
        /\ last.issued
        /\ Alive = pre.norders + 1
        /\ Made(-pre.position)

\* C4 as amended: on such a bar, when the partial-trim condition does not
\* hold, a sell of |position_size| units (the entire remaining position of
\* a long) is issued on that bar; when the partial-trim condition holds the
\* trim rule fires instead.
C4_StopLossUnlessTrim ==
    (Evaluated /\ pre.position # 0 /\ StopCond) =>
        IF TrimCond
        THEN last.rule = "partial-trim"
        ELSE /\ last.issued
             /\ last.rule \in {"trend-exit", "stop-loss"}
             /\ Alive = pre.norders + 1
             /\ Made(-Abs(pre.position))

\* the stop-loss sold a long position that had been above the BBI for two
\* days after its partial trim
C4_Witness ==
    /\ Evaluated
    /\ pre.position > 0
    /\ StopCond
    /\ last.rule = "stop-loss"
    /\ last.issued
    /\ pre.sell_count = 1
    /\ days_above_bbi >= 2

\* C5: whenever a fill brings position_size to 0, handling that fill resets
\* partial_sell_done, both trend-day counters and stop_price to their
\* initial values.
C5_ResetOnFlatten ==
    (last.op \in {"Completed", "Partial"} /\ pre.position # 0 /\ position = 0) =>
        /\ sell_count = 0
        /\ days_above_bbi = 0
        /\ days_below_bbi = 0
        /\ stop_price \in {StopNone, StopUnset}

\* C6: handling a Canceled, Margin or Rejected notification clears the
\* pending-order flag, leaves position_size, stop_price, sell_count and both
\* trend-day counters unchanged and raises no error.
C6_CancelFrame ==
    (last.op \in {"Canceled", "Margin", "Rejected"}) =>
        /\ order = None
        /\ position = pre.position
        /\ stop_price = pre.stop_price
        /\ sell_count = pre.sell_count
        /\ days_above_bbi = pre.days_above_bbi
        /\ days_below_bbi = pre.days_below_bbi
        /\ ~raised

\* the pending sell of a trimmed long position was cancelled
C6_Witness ==
    /\ last.op = "Canceled"
    /\ pre.order # None
    /\ pre.position > 0
    /\ pre.sell_count = 1
    /\ pre.stop_price > 0
    /\ pre.days_below_bbi >= 2

\* C7: position_size >= 0 in every reachable state.
C7_PositionNonNegative == position >= 0

\* C8: on a bar evaluated with an open position and no pending order at most
\* one sell is issued, and it belongs to the first rule whose condition
\* holds: partial trim, else trend-reversal exit, else stop-loss, else none.
C8_ExitPriority ==
    (Evaluated /\ pre.position # 0) =>
        /\ last.rule = IF TrimCond THEN "partial-trim"
                       ELSE IF TrendCond THEN "trend-exit"
                       ELSE IF StopCond THEN "stop-loss"
                       ELSE "none"
        /\ Alive \in {pre.norders, pre.norders + 1}
        /\ last.issued <=> Alive = pre.norders + 1
        /\ last.issued => (last.rule # "none" /\ Made(-Abs(last.size)))
        /\ last.rule = "none" => ~last.issued
        /\ last.rule \in {"trend-exit", "stop-loss"} => last.issued

\* the trend-reversal exit and the stop-loss both matched and the
\* trend-reversal exit was the one issued
C8_Witness ==
    /\ Evaluated
    /\ pre.position > 0
    /\ TrendCond
    /\ StopCond
    /\ last.issued
    /\ last.rule = "trend-exit"

\* C9: while a position is open each evaluated bar with close > bbi adds one
\* to consecutive_days_above_trend and every other evaluated bar resets it;
\* on a bar where the counter is >= 2 and no partial sell has occurred a
\* sell of size floor(position_size / 2) is issued and partial_sell_done
\* becomes true.
C9_PartialTrim ==
    (Evaluated /\ pre.position # 0) =>
        /\ days_above_bbi = IF last.dataclose > last.bbi
                            THEN pre.days_above_bbi + 1 ELSE 0
        /\ TrimCond =>
             /\ last.issued
             /\ Alive = pre.norders + 1
             /\ Made(-(pre.position \div 2))
             /\ sell_count > 0

C11_OneTrimPerPosition == trims <= 1

\* the trim had been made, the price stayed above the BBI for two more days
\* with the position still open, and no second trim was made
C11_Witness ==
    /\ Evaluated
    /\ trims = 1
    /\ pre.position > 0
    /\ pre.sell_count = 1
    /\ days_above_bbi >= 2
    /\ last.rule # "partial-trim"

\* C12: once an entry has set stop_price, no later bar evaluation and no
\* order notification changes it, unless the step closes the position or is
\* a fresh entry.
C12_StopPriceKept ==
    (/\ pre.stop_price > 0
     /\ ~(IsBar /\ last.rule = "entry")
     /\ ~(pre.position # 0 /\ position = 0)) =>
        stop_price = pre.stop_price

\* the fill of a partial trim left an open position and the stop where the
\* entry had put it
C12_Witness ==
    /\ last.op = "Completed"
    /\ last.size < 0
    /\ pre.sell_count = 1
    /\ pre.stop_price > 0
    /\ position > 0
    /\ stop_price = pre.stop_price

\* ===================================================================
\* The scripted bar sequence of the state machine example
\* ===================================================================
\* bars 0..15: j >= 0 before bar 10, j < 0 on bar 10, close > bbi on bars
\* 11-13, close < bbi on bars 14-15, close never below stop_price
ScenInput(n, close, b, jv) ==
    /\ n < 10 => jv >= 0
    /\ n = 10 => jv < 0
    /\ n \in 11..13 => close > b
    /\ n \in 14..15 => close < b
    /\ (n > 10 /\ stop_price > 0) => close * PriceScale >= stop_price

\* the engine calls next() on the following bar of the sequence; every
\* order made before has filled
ScenBar ==
    \E close \in Closes, b \in Bbis, jv \in JValues :
        /\ bar < 15
        /\ ~raised
        /\ orders = EmptyBag
        /\ ScenInput(bar + 1, close, b, jv)
        /\ pre' = Snapshot
        /\ \/ NextPending(close, b, jv)
           \/ NextFlat(close, b, jv)
           \/ NextLong(close, b, jv)
        /\ bar' = bar + 1
        /\ events' = IF last'.issued
                     THEN Append(events, [bar |-> bar + 1,
                                          buy |-> last'.rule = "entry",
                                          size |-> last'.size])
                     ELSE events
        /\ UNCHANGED pickvars
        /\ UNCHANGED indvars
        /\ UNCHANGED <<mvvars, fetchvars, mainvars>>

\* the broker executes the order in full before the next bar
ScenFill ==
    \E o \in BagToSet(orders) :
        /\ ~raised
        /\ pre' = Snapshot
        /\ NotifyFrame
        /\ BrokerComplete(o)
        /\ TrimsAfterFill
        /\ UNCHANGED scenvars
        /\ UNCHANGED pickvars
        /\ UNCHANGED indvars
        /\ UNCHANGED <<mvvars, fetchvars, mainvars>>

NextScenario == ScenBar \/ ScenFill

SpecScenario == Init /\ [][NextScenario]_vars

\* C13: on that bar sequence the strategy emits exactly a buy at bar 10, a
\* sell of half the position at bar 12 and a sell of the remainder at bar
\* 15, and ends with position_size = 0.
C13_Scenario ==
    (bar = 15 /\ orders = EmptyBag) =>
        /\ position = 0
        /\ \E s \in BuySizes :
             events = << [bar |-> 10, buy |-> TRUE, size |-> s],
                         [bar |-> 12, buy |-> FALSE, size |-> s \div 2],
                         [bar |-> 15, buy |-> FALSE, size |-> s - (s \div 2)] >>

\* ===================================================================
\* The stock picker: StockPicker of src/run/shaofu_pick.py
\* ===================================================================
\* the strategy's variables, which the stock picker never touches
stratvars == <<order, stoporder, stop_price, days_above_bbi, days_below_bbi,
               has_above_bbi, sell_count, position, orders, raised, pre, last,
               trims>>

\* the most files the data directory holds
MaxFiles == 2

\* line 76: the fewest rows a file needs
MinRows == 20

\* lines 136, 139, 144: the turnover floors and the high-turnover mark
TurnoverCN == 100000000
TurnoverUS == 10000000
TurnoverHigh == 1000000000

\* lines 143, 146: the two J thresholds
JBase == 0
JHigh == 8

\* round(x, 3) keeps thousandths
Milli == 1000

\* the text ".csv"
DotCsv == <<46, 99, 115, 118>>

\* the directories of get_stock_files, "a/" and "us/", as character codes
Dirs == {<<97, 47>>, <<117, 115, 47>>}

\* the symbols "0" and "A"
Symbols == {<<48>>, <<65>>}

\* the paths glob can return
Paths == {d \o sym \o DotCsv : d \in Dirs, sym \in Symbols}

\* str.isdigit() of one character
IsDigit(c) == c \in 48..57

\* a number with a fraction: w whole units and f ten-thousandths
Num(w, f) == [w |-> w, f |-> f]

\* a file read_csv cannot read, or whose columns make KDJPandas.calculate raise
BrokenContent ==
    [broken |-> TRUE, rows |-> 0, volume_ewm |-> Num(0, 0), k |-> 0, d |-> 0]

\* a file with fewer rows than MinRows
ShortContent ==
    [broken |-> FALSE, rows |-> MinRows - 1, volume_ewm |-> Num(0, 0),
     k |-> 0, d |-> 0]

\* what a file can hold: the smoothed volume of its last row and the K and
\* D of its last row (k, d in ten-thousandths)
Contents(volumes, kds) ==
    {BrokenContent, ShortContent} \cup
    {[broken |-> FALSE, rows |-> MinRows, volume_ewm |-> v,
      k |-> kd.k, d |-> kd.d] : v \in volumes, kd \in kds}

\* a pair of latest K and D
KD(k, d) == [k |-> k, d |-> d]

\* the values the files of a directory scan hold
PickVolumes ==
    {Num(TurnoverUS, 0), Num(TurnoverCN - 1, 0), Num(TurnoverCN, 0),
     Num(TurnoverHigh, 0)}
PickKDs == {KD(10000, 40000), KD(0, 0), KD(80000, 80000)}

\* the values a single file holds when the tiers are examined
TierVolumes ==
    {Num(TurnoverUS - 1, 0), Num(TurnoverUS, 0), Num(TurnoverCN - 1, 0),
     Num(TurnoverCN - 1, 9996), Num(TurnoverCN, 0), Num(TurnoverHigh - 1, 0),
     Num(TurnoverHigh - 1, 9994), Num(TurnoverHigh, 0)}
TierKDs ==
    {KD(10000, 40000), KD(0, 2), KD(0, 0), KD(2, 1), KD(2, 0), KD(4, 6),
     KD(80000, 80000), KD(80002, 80001), KD(80002, 80000)}

MkFile(path, c) ==
    [path |-> path, broken |-> c.broken, rows |-> c.rows,
     volume_ewm |-> c.volume_ewm, k |-> c.k, d |-> c.d]

\* the directories the scan can find: at most n files, each path once
Universes(contents, n) ==
    UNION { { {MkFile(q, c[q]) : q \in ps} : c \in [ps -> contents] } :
            ps \in {qs \in SUBSET Paths : Cardinality(qs) <= n} }

\* str < str: lexicographic on the character codes
RECURSIVE SeqLess(_, _)
SeqLess(a, b) ==
    IF a = <<>> THEN b # <<>>
    ELSE IF b = <<>> THEN FALSE
    ELSE IF a[1] # b[1] THEN a[1] < b[1]
    ELSE SeqLess(Tail(a), Tail(b))

\* line 124: sorted(self.get_stock_files())
sorted(files) ==
    CHOOSE sq \in [1..Cardinality(files) -> files] :
        \A a, b \in 1..Cardinality(files) :
            a < b => SeqLess(sq[a].path, sq[b].path)

\* os.path.basename
RECURSIVE basename(_)
basename(path) ==
    IF \E k \in 1..Len(path) : path[k] = 47
    THEN basename(Tail(path))
    ELSE path

\* lines 69-70: filename.replace('.csv', '')
SymbolOf(path) ==
    LET filename == basename(path)
        n == Len(filename)
    IN  IF n >= 4 /\ SubSeq(filename, n - 3, n) = DotCsv
        THEN SubSeq(filename, 1, n - 4)
        ELSE filename

\* round(x, 3) of x ten-thousandths, in thousandths: to nearest, halves to even
Round3(x) ==
    LET q == x \div 10
        r == x % 10
    IN  IF r < 5 THEN q
        ELSE IF r > 5 THEN q + 1
        ELSE IF q % 2 = 0 THEN q ELSE q + 1

\* round(x, 3) of a number with a fraction: w whole units and m thousandths
Round3Num(x) ==
    LET m == Round3(x.f)
    IN  IF m = Milli THEN [w |-> x.w + 1, m |-> 0] ELSE [w |-> x.w, m |-> m]

\* a rounded number >= a whole number
Geq(x, t) == x.w >= t

\* the J of the latest row with k and d exchanged
LatestJ_Swapped(f) == 3 * f.d - 2 * f.k

\* kdj.py line 91: j = 3.0 * k - 2.0 * d, here of the latest row
LatestJ(f) == 3 * f.k - 2 * f.d

\* lines 57-110: process_stock_file
process_stock_file(f) ==
    IF f.broken \/ f.rows < MinRows
    THEN NoInfo
    ELSE [none |-> FALSE,
          symbol |-> SymbolOf(f.path),
          file_path |-> f.path,
          turnover_mv5 |-> Round3Num(f.volume_ewm),
          k_value |-> Round3(f.k),
          d_value |-> Round3(f.d),
          j_value |-> Round3(LatestJ(f)),
          j_less_than_zero |-> LatestJ(f) < 0]

\* the floors of lines 134-139 given to the wrong markets
turnover_threshold_Swapped(info) ==
    IF IsDigit(info.symbol[1]) THEN TurnoverUS ELSE TurnoverCN

\* lines 133-139
turnover_threshold(info) ==
    IF IsDigit(info.symbol[1]) THEN TurnoverCN ELSE TurnoverUS

\* line 140
condition_1(info, floor) == Geq(info.turnover_mv5, floor)

\* lines 143-146 without the looser threshold of high turnover
j_threshold_NoHigh(info) == JBase

\* lines 143-146
j_threshold(info) ==
    IF Geq(info.turnover_mv5, TurnoverHigh) THEN JHigh ELSE JBase

\* line 147 with the comparison turned around
condition_2_Reversed(info, thr) == info.j_value >= thr * Milli

\* line 147
condition_2(info, thr) == info.j_value <= thr * Milli

\* lines 132-147: the thresholds and conditions of one file
Conditions(info) ==
    [turnover_threshold |-> turnover_threshold(info),
     condition_1 |-> condition_1(info, turnover_threshold(info)),
     j_threshold |-> j_threshold(info),
     condition_2 |-> condition_2(info, j_threshold(info))]

\* line 150
Selected(c) == c.condition_1 /\ c.condition_2

\* lines 124-125: pick_stocks lists the data directory and sorts the paths
PickStartWith(universes) ==
    /\ pick_pc = "idle"
    /\ \E files \in universes :
        /\ stock_files' = sorted(files)
        /\ pick_pc' = IF files = {} THEN "returned" ELSE "loop"
    /\ file_idx' = 0
    /\ selected_stocks' = <<>>
    /\ UNCHANGED <<stock_info, conditions, df_results, txt_lines>>
    /\ UNCHANGED stratvars
    /\ UNCHANGED scenvars
    /\ UNCHANGED indvars
    /\ UNCHANGED <<mvvars, fetchvars, mainvars>>

PickStart == PickStartWith(Universes(Contents(PickVolumes, PickKDs), MaxFiles))

\* lines 127-157: one pass of the loop of pick_stocks, and the return after
\* the last file; stock_info['symbol'] of line 134 raises TypeError when
\* process_stock_file returned None
LoopStep ==
    /\ pick_pc = "loop"
    /\ LET info == process_stock_file(stock_files[file_idx + 1])
       IN  /\ stock_info' = info
           /\ IF info.none
              THEN /\ pick_pc' = "raised"
                   /\ conditions' = NoConditions
                   /\ UNCHANGED <<file_idx, selected_stocks>>
              ELSE /\ conditions' = Conditions(info)
                   /\ selected_stocks' = IF Selected(Conditions(info))
                                         THEN Append(selected_stocks, info)
                                         ELSE selected_stocks
                   /\ file_idx' = file_idx + 1
                   /\ pick_pc' = IF file_idx + 1 = Len(stock_files)
                                 THEN "returned" ELSE "loop"
    /\ UNCHANGED <<stock_files, df_results, txt_lines>>
    /\ UNCHANGED stratvars
    /\ UNCHANGED scenvars
    /\ UNCHANGED indvars
    /\ UNCHANGED <<mvvars, fetchvars, mainvars>>

\* the rows are not put in any order
SortedByJ_Unsorted(rows) == TRUE

\* line 182: the rows are in ascending j_value order
SortedByJ(rows) ==
    \A a, b \in 1..Len(rows) : a < b => rows[a].j_value <= rows[b].j_value

\* the orders sort_values('j_value') can give the rows: the default sort is
\* not stable, so rows of equal j_value come in any order
SortValues(rows) ==
    { [k \in 1..Len(rows) |-> rows[perm[k]]] :
        perm \in {f \in [1..Len(rows) -> 1..Len(rows)] :
                    \A a, b \in 1..Len(rows) : a # b => f[a] # f[b]} }

\* lines 188-193: the symbols of the rows, one per line
SymbolsOf(rows) == [a \in 1..Len(rows) |-> rows[a].symbol]

\* lines 159-195: save_results on what pick_stocks returned; the CSV of line
\* 186 holds df_results; with output_file given, line 191 reads the
\* unassigned local timestamp and raises before the symbol list is written
save_results(output_file) ==
    /\ pick_pc = "returned"
    /\ IF selected_stocks = <<>>
       THEN /\ df_results' = <<>>
            /\ txt_lines' = <<>>
            /\ pick_pc' = "saved"
       ELSE /\ \E rows \in SortValues(selected_stocks) :
                 /\ SortedByJ(rows)
                 /\ df_results' = rows
                 /\ txt_lines' = IF output_file = None
                                 THEN SymbolsOf(rows) ELSE <<>>
            /\ pick_pc' = IF output_file = None THEN "saved" ELSE "save_raised"
    /\ UNCHANGED <<stock_files, file_idx, selected_stocks, stock_info,
                   conditions>>
    /\ UNCHANGED stratvars
    /\ UNCHANGED scenvars
    /\ UNCHANGED indvars
    /\ UNCHANGED <<mvvars, fetchvars, mainvars>>

SaveResults == \E output_file \in {None, "out.csv"} : save_results(output_file)

NextPick == PickStart \/ LoopStep \/ SaveResults

SpecPick == Init /\ [][NextPick]_vars

\* the tiers examined on one file holding any of the boundary values
TierStart == PickStartWith(Universes(Contents(TierVolumes, TierKDs), 1))

NextTier == TierStart \/ LoopStep

SpecTier == Init /\ [][NextTier]_vars

\* ------------------------------------------------------- stock picker claims
\* pick_stocks or save_results has ended
Returned == pick_pc = "returned"
Saved == pick_pc \in {"saved", "save_raised"}

\* the loop has evaluated a file and stock_info, conditions are that file's
FileEvaluated == ~stock_info.none

\* the tiers as the screen states them, on the values a candidate reports
LiquidityTier(info) ==
    IF IsDigit(info.symbol[1])
    THEN info.turnover_mv5.w >= TurnoverCN
    ELSE info.turnover_mv5.w >= TurnoverUS
SignalTier(info) ==
    IF info.turnover_mv5.w >= TurnoverHigh
    THEN info.j_value <= JHigh * Milli
    ELSE info.j_value <= JBase * Milli

\* C14: a symbol with fewer than 20 bars, or whose read or indicator
\* computation fails, is skipped without raising and the batch continues.
C14_BadSymbolSkipped ==
    (\E k \in 1..Len(stock_files) : process_stock_file(stock_files[k]).none)
        => pick_pc # "raised"

Ended == pick_pc \notin {"idle", "loop"}

\* C17: once pick_stocks has ended it has returned exactly the evaluable
\* symbols of the universe that pass both tiers: none that fails a tier,
\* none omitted.
C17_ExactlyPassing ==
    Ended =>
        /\ pick_pc # "raised"
        /\ \A k \in 1..Len(stock_files) :
             LET info == process_stock_file(stock_files[k])
             IN  (~info.none /\ LiquidityTier(info) /\ SignalTier(info))
                   <=> \E a \in 1..Len(selected_stocks) :
                          selected_stocks[a] = info
        /\ \A a \in 1..Len(selected_stocks) :
             \E k \in 1..Len(stock_files) :
                selected_stocks[a] = process_stock_file(stock_files[k])

\* a <= b for symbol names
SymbolLeq(a, b) == a = b \/ SeqLess(a, b)

\* C18 as stated: the candidates are in ascending j order and candidates of
\* equal j are in symbol-name order.
C18_OrderedTiesBySymbol ==
    Saved =>
        \A a, b \in 1..Len(df_results) :
            a < b =>
                \/ df_results[a].j_value < df_results[b].j_value
                \/ /\ df_results[a].j_value = df_results[b].j_value
                   /\ SymbolLeq(df_results[a].symbol, df_results[b].symbol)

\* C18: the rows save_results writes are the candidates pick_stocks returned,
\* in ascending j order (equal j in any order); pick_stocks itself returns
\* the candidates in the order of their sorted file paths.
C18_OrderedByJ ==
    /\ \A a, b \in 1..Len(selected_stocks) :
         a < b => SeqLess(selected_stocks[a].file_path,
                          selected_stocks[b].file_path)
    /\ Saved =>
         /\ Len(df_results) = Len(selected_stocks)
         /\ \A a \in 1..Len(selected_stocks) :
              \E b \in 1..Len(df_results) : df_results[b] = selected_stocks[a]
         /\ \A a, b \in 1..Len(df_results) :
              a < b => df_results[a].j_value <= df_results[b].j_value

\* save_results moved a candidate of smaller j in front of one whose file
\* path sorts first
C18_Witness ==
    /\ Saved
    /\ Len(df_results) = 2
    /\ df_results[1].j_value < df_results[2].j_value
    /\ df_results[1] = selected_stocks[2]

\* the screen with its j thresholds raised by d.j and its floors by d.floor
ScreenWith(info, d) ==
    /\ condition_1(info, turnover_threshold(info) + d.floor)
    /\ condition_2(info, j_threshold(info) + d.j)

\* the files of the universe that pass that screen
PassingSet(d) ==
    {k \in 1..Len(stock_files) :
        LET info == process_stock_file(stock_files[k])
        IN  ~info.none /\ ScreenWith(info, d)}

\* the changes of thresholds compared
Shifts == [j : {-5, 0, 8}, floor : {-1, 0, 1, TurnoverCN - TurnoverUS}]

\* C19: for a fixed universe a larger j_threshold gives a superset of the
\* passing set and a larger liquidity floor gives a subset.
C19_Monotonic ==
    \A d1, d2 \in Shifts :
        /\ (d1.j <= d2.j /\ d1.floor = d2.floor)
              => PassingSet(d1) \subseteq PassingSet(d2)
        /\ (d1.floor <= d2.floor /\ d1.j = d2.j)
              => PassingSet(d2) \subseteq PassingSet(d1)

\* a universe where raising j_threshold adds a symbol and raising the floor
\* removes one
C19_Witness ==
    /\ Returned
    /\ PassingSet([j |-> 0, floor |-> 0]) # PassingSet([j |-> 8, floor |-> 0])
    /\ PassingSet([j |-> 0, floor |-> 0]) # PassingSet([j |-> 0, floor |-> 1])

\* C20: every stock the picker selects has a latest J strictly below 0.
C20_SelectedJBelowZero ==
    \A a \in 1..Len(selected_stocks) : selected_stocks[a].j_value < 0

\* C27: save_results on a non-empty selection writes the ranked CSV and the
\* flat symbol list (same order) and returns the CSV path, with output_file
\* omitted and with output_file supplied.
C27_SaveWritesBoth ==
    (Saved /\ selected_stocks # <<>>) =>
        /\ pick_pc = "saved"
        /\ txt_lines = SymbolsOf(df_results)

\* how far the reported j is from 3 * k - 2 * d of the reported k and d, in
\* thousandths
ReportedGap(info) ==
    Abs(info.j_value - (3 * info.k_value - 2 * info.d_value))

\* C28 as stated: every candidate record satisfies j = 3*k - 2*d on the
\* k_value, d_value and j_value it reports.
C28_ReportedIdentity == FileEvaluated => ReportedGap(stock_info) = 0

\* C28: on the values a candidate reports, j_value differs from
\* 3*k_value - 2*d_value by at most 0.003: each value is rounded to 3
\* decimals on its own.
C28_ReportedWithinRounding == FileEvaluated => ReportedGap(stock_info) <= 3

\* a candidate whose reported values miss the identity by two rounding steps
C28_Witness == FileEvaluated /\ ReportedGap(stock_info) = 2

\* ===================================================================
\* The indicators: KDJPandas of src/indicator/kdj.py, BBI of
\* src/indicator/bbi.py
\* ===================================================================
\* the most rows of a frame given to KDJPandas.calculate
MaxBars == 5

\* the most calls of KDJPandas.calculate on one frame
MaxRuns == 2

\* the most bars of the data feed of the BBI
MaxFeed == 26

\* bbi.py lines 9-12: the periods of the four moving averages
ma1 == 3
ma2 == 6
ma3 == 12
ma4 == 24

\* ---------------------------------------------------------------- numbers
\* a float is an exact fraction n / d with d > 0, or NaN (0 / 0), or an
\* infinity (1 / 0 and -1 / 0)
NaN == [n |-> 0, d |-> 0]
IsNaN(x) == x.d = 0 /\ x.n = 0
Inf(sign) == [n |-> sign, d |-> 0]
IsInf(x) == x.d = 0 /\ x.n # 0

RECURSIVE Gcd(_, _)
Gcd(a, b) == IF b = 0 THEN a ELSE Gcd(b, a % b)

\* the fraction n / d in lowest terms; 0 / 0 is NaN and a non-zero value
\* over 0 is an infinity, as numpy divides floats
Rat(n, d) ==
    IF d = 0 THEN (IF n = 0 THEN NaN ELSE Inf(Sign(n)))
    ELSE LET g == Gcd(Abs(n), Abs(d))
             sgn == IF d < 0 THEN -1 ELSE 1
         IN  [n |-> (sgn * n) \div g, d |-> (sgn * d) \div g]

RInt(i) == [n |-> i, d |-> 1]
RAdd(x, y) ==
    IF IsNaN(x) \/ IsNaN(y) THEN NaN
    ELSE IF IsInf(x) /\ IsInf(y) THEN (IF x.n = y.n THEN x ELSE NaN)
    ELSE IF IsInf(x) THEN x
    ELSE IF IsInf(y) THEN y
    ELSE Rat(x.n * y.d + y.n * x.d, x.d * y.d)
RSub(x, y) == RAdd(x, [n |-> 0 - y.n, d |-> y.d])
RMul(x, y) ==
    IF IsNaN(x) \/ IsNaN(y) THEN NaN
    ELSE IF IsInf(x) \/ IsInf(y)
    THEN (IF x.n = 0 \/ y.n = 0 THEN NaN ELSE Inf(Sign(x.n) * Sign(y.n)))
    ELSE Rat(x.n * y.n, x.d * y.d)
RDiv(x, y) ==
    IF IsNaN(x) \/ IsNaN(y) THEN NaN
    ELSE IF IsInf(x) /\ IsInf(y) THEN NaN
    ELSE IF IsInf(x) THEN Inf(IF y.n < 0 THEN 0 - x.n ELSE x.n)
    ELSE IF IsInf(y) THEN RInt(0)
    ELSE Rat(x.n * y.d, x.d * y.n)

SetMax(S) == CHOOSE x \in S : \A y \in S : y <= x
SetMin(S) == CHOOSE x \in S : \A y \in S : x <= y

\* ------------------------------------------------------------- KDJPandas
\* kdj.py line 69
required_cols == {"high", "low", "close"}

\* lines 76-77: rolling(window).max() and .min() at row i (from 1): NaN
\* until the window is full
RollingMax_Lookahead(xs, window, i) ==
    IF i < window THEN NaN
    ELSE RInt(SetMax({xs[t] : t \in (i - window + 1)..Len(xs)}))
RollingMax(xs, window, i) ==
    IF i < window THEN NaN
    ELSE RInt(SetMax({xs[t] : t \in (i - window + 1)..i}))
RollingMin(xs, window, i) ==
    IF i < window THEN NaN
    ELSE RInt(SetMin({xs[t] : t \in (i - window + 1)..i}))

\* rsv of row i over windows that need not be full
RsvAt_Expanding(rows, pk, i) ==
    LET from == IF i < pk THEN 1 ELSE i - pk + 1
        highest == RInt(SetMax({rows[t].high : t \in from..i}))
        lowest == RInt(SetMin({rows[t].low : t \in from..i}))
    IN  RDiv(RMul(RInt(100), RSub(RInt(rows[i].close), lowest)),
             RSub(highest, lowest))

\* line 80: rsv of row i
RsvAt(rows, pk, i) ==
    LET highest == RollingMax([t \in 1..Len(rows) |-> rows[t].high], pk, i)
        lowest == RollingMin([t \in 1..Len(rows) |-> rows[t].low], pk, i)
    IN  RDiv(RMul(RInt(100), RSub(RInt(rows[i].close), lowest)),
             RSub(highest, lowest))

\* pandas ewm(alpha, adjust=False).mean() from row i on, ignore_na = False:
\* weighted is the mean so far and old_wt the weight it carries. A NaN row
\* repeats the mean and lets old_wt decay; the next value is then averaged
\* with weights old_wt and alpha, divided by their sum.
RECURSIVE EwmFrom(_, _, _, _, _)
EwmFrom(xs, alpha, i, weighted, old_wt) ==
    IF i > Len(xs) THEN <<>>
    ELSE LET cur == xs[i]
             decayed == RMul(old_wt, RSub(RInt(1), alpha))
             mean == IF IsNaN(weighted) THEN cur
                     ELSE IF IsNaN(cur) \/ weighted = cur THEN weighted
                     ELSE RDiv(RAdd(RMul(decayed, weighted), RMul(alpha, cur)),
                               RAdd(decayed, alpha))
             wt == IF IsNaN(weighted) THEN old_wt
                   ELSE IF IsNaN(cur) THEN decayed
                   ELSE RInt(1)
         IN  <<mean>> \o EwmFrom(xs, alpha, i + 1, mean, wt)

\* the mean started from 0 instead of from the first value
Ewm_FromZero(xs, alpha) ==
    IF xs = <<>> THEN <<>>
    ELSE EwmFrom(xs, alpha, 1, RInt(0), RInt(1))

\* lines 85, 88: series.ewm(alpha=alpha, adjust=False).mean()
Ewm(xs, alpha) ==
    IF xs = <<>> THEN <<>>
    ELSE <<xs[1]>> \o EwmFrom(xs, alpha, 2, xs[1], RInt(1))

\* lines 84, 88: d is smoothed with the alpha of k
DAlpha(calc) == Rat(1, calc.pd)

\* line 91 with the factors exchanged
JOf_Swapped(k, d) == RSub(RMul(RInt(2), k), RMul(RInt(3), d))

\* line 91: j = 3.0 * k - 2.0 * d
JOf(k, d) == RSub(RMul(RInt(3), k), RMul(RInt(2), d))

\* dates that do not strictly increase, or a price that is not positive
Malformed(frame) ==
    \/ \E a, b \in 1..Len(frame.rows) :
          a < b /\ frame.rows[a].date >= frame.rows[b].date
    \/ \E a \in 1..Len(frame.rows) :
          \/ frame.rows[a].high <= 0
          \/ frame.rows[a].low <= 0
          \/ frame.rows[a].close <= 0

\* calculate with a validation of the bars in front
calculate_Validating(frame, calc) ==
    IF ~(required_cols \subseteq frame.cols) \/ Malformed(frame)
    THEN [raised |-> TRUE, cols |-> {}, rows |-> <<>>]
    ELSE LET rows == frame.rows
             rsv == [i \in 1..Len(rows) |-> RsvAt(rows, calc.pk, i)]
             k == Ewm(rsv, Rat(1, calc.pd))
             d == Ewm(k, DAlpha(calc))
         IN  [raised |-> FALSE,
              cols |-> frame.cols \cup {"k", "d", "j"},
              rows |-> [i \in 1..Len(rows) |->
                          [date |-> rows[i].date, high |-> rows[i].high,
                           low |-> rows[i].low, close |-> rows[i].close,
                           k |-> k[i], d |-> d[i], j |-> JOf(k[i], d[i])]]]

\* lines 58-98: calculate; the result is a new frame, or ValueError
calculate(frame, calc) ==
    IF ~(required_cols \subseteq frame.cols)
    THEN [raised |-> TRUE, cols |-> {}, rows |-> <<>>]
    ELSE LET rows == frame.rows
             rsv == [i \in 1..Len(rows) |-> RsvAt(rows, calc.pk, i)]
             k == Ewm(rsv, Rat(1, calc.pd))
             d == Ewm(k, DAlpha(calc))
         IN  [raised |-> FALSE,
              cols |-> frame.cols \cup {"k", "d", "j"},
              rows |-> [i \in 1..Len(rows) |->
                          [date |-> rows[i].date, high |-> rows[i].high,
                           low |-> rows[i].low, close |-> rows[i].close,
                           k |-> k[i], d |-> d[i], j |-> JOf(k[i], d[i])]]]

\* the caller's frame after a call that worked on the frame itself
FrameAfter_NoCopy(frame, result) ==
    IF result.raised THEN frame
    ELSE [cols |-> result.cols, rows |-> result.rows]

\* line 73: calculate works on df.copy(), the caller's frame stays as it was
FrameAfter(frame, result) == frame

\* the bars of the frames: a flat bar, close at the low, close at the high,
\* and a bar with non-positive prices
Bars ==
    {[high |-> 2, low |-> 2, close |-> 2], [high |-> 3, low |-> 1, close |-> 1],
     [high |-> 3, low |-> 1, close |-> 3], [high |-> 2, low |-> -1, close |-> 0]}

\* the dates of the rows: increasing, or the same date on every row
DateOrders == {"increasing", "repeated"}

DateOf(order_of_dates, i) == IF order_of_dates = "increasing" THEN i ELSE 1

AllCols == {"date", "high", "low", "close"}

\* the frames of at most n rows, and a frame without the close column
Frames(n) ==
    UNION { {[cols |-> AllCols,
              rows |-> [i \in 1..len |->
                          [date |-> DateOf(dates, i), high |-> bs[i].high,
                           low |-> bs[i].low, close |-> bs[i].close]]] :
                bs \in [1..len -> Bars], dates \in DateOrders} :
            len \in 0..n }
    \cup {[cols |-> AllCols \ {"close"}, rows |-> <<>>]}

\* the periods a calculator is built with
Calculators == [pk : {2, 3}, pd : {3}, pdslow : {3, 5}]

\* a caller calls calculate on its frame
Calculate ==
    /\ runs < MaxRuns
    /\ data = <<>>
    /\ out' = calculate(df, calculator)
    /\ df' = FrameAfter(df, calculate(df, calculator))
    /\ runs' = runs + 1
    /\ UNCHANGED <<calculator, data, bbi_line>>
    /\ UNCHANGED stratvars
    /\ UNCHANGED scenvars
    /\ UNCHANGED pickvars
    /\ UNCHANGED <<mvvars, fetchvars, mainvars>>

\* --------------------------------------------------------------------- BBI
\* backtrader SMA of period at bar i (from 1): NaN until period bars exist
SMA(xs, period, i) ==
    IF i < period THEN NaN
    ELSE LET RECURSIVE Sum(_)
             Sum(t) == IF t > i THEN 0 ELSE xs[t] + Sum(t + 1)
         IN  Rat(Sum(i - period + 1), period)

\* the mean taken over three averages
BBIAt_Thirds(xs, i) ==
    RDiv(RAdd(RAdd(SMA(xs, ma1, i), SMA(xs, ma2, i)), SMA(xs, ma3, i)), RInt(3))

\* bbi.py lines 33-39: (ma1 + ma2 + ma3 + ma4) / 4.0 at bar i
BBIAt(xs, i) ==
    RDiv(RAdd(RAdd(RAdd(SMA(xs, ma1, i), SMA(xs, ma2, i)), SMA(xs, ma3, i)),
              SMA(xs, ma4, i)), RInt(4))

\* the closes of a data feed
FeedCloses == {10, 11, 13}

\* the feeds: a pattern of five closes repeated up to n bars
Feeds(n) ==
    {[i \in 1..len |-> pattern[((i - 1) % 5) + 1]] :
        len \in 1..n, pattern \in [1..5 -> FeedCloses]}

\* the engine runs the indicator over the whole feed
BBIOnce ==
    /\ data # <<>>
    /\ bbi_line = <<>>
    /\ bbi_line' = [i \in 1..Len(data) |-> BBIAt(data, i)]
    /\ UNCHANGED <<calculator, df, out, runs, data>>
    /\ UNCHANGED stratvars
    /\ UNCHANGED scenvars
    /\ UNCHANGED pickvars
    /\ UNCHANGED <<mvvars, fetchvars, mainvars>>

\* either a frame for a KDJPandas calculator, or a data feed for the BBI
InitInd ==
    /\ StrategyInit
    /\ PickIdle
    /\ MvIdle
    /\ FetchIdle
    /\ MainIdle
    /\ \/ /\ calculator \in Calculators
          /\ df \in Frames(MaxBars)
          /\ data = <<>>
       \/ /\ calculator = DefaultCalculator
          /\ df = EmptyFrame
          /\ data \in Feeds(MaxFeed)
    /\ out = NoOut
    /\ runs = 0
    /\ bbi_line = <<>>

NextInd == Calculate \/ BBIOnce

SpecInd == InitInd /\ [][NextInd]_vars

\* --------------------------------------------------------- indicator claims
\* calculate has returned a series for df
Computed == runs >= 1 /\ ~out.raised /\ required_cols \subseteq df.cols

\* the returned series has a value missing at row i
Undefined(i) ==
    IsNaN(out.rows[i].k) /\ IsNaN(out.rows[i].d) /\ IsNaN(out.rows[i].j)
Defined(i) ==
    ~IsNaN(out.rows[i].k) /\ ~IsNaN(out.rows[i].d) /\ ~IsNaN(out.rows[i].j)

\* every high and low of the pk rows ending at row i is the same price
FlatWindow(rows, pk, i) ==
    SetMax({rows[t].high : t \in (i - pk + 1)..i})
        = SetMin({rows[t].low : t \in (i - pk + 1)..i})

\* the first row with a full window that is not flat, Len + 1 when none
FirstDefined(rows, pk) ==
    SetMin({i \in pk..Len(rows) : ~FlatWindow(rows, pk, i)} \cup {Len(rows) + 1})

\* the BBI has run over the data feed
BBIComputed == data # <<>> /\ bbi_line # <<>>

\* C21 as stated: k, d and j are undefined at every index below pk - 1 and
\* defined from index pk - 1 on; bbi is undefined below index 23 and defined
\* from index 23 on (rows count from 1 here).
C21_WarmUp ==
    /\ Computed =>
         \A i \in 1..Len(out.rows) :
            IF i < calculator.pk THEN Undefined(i) ELSE Defined(i)
    /\ BBIComputed =>
         \A i \in 1..Len(bbi_line) : IsNaN(bbi_line[i]) <=> i < ma4

\* C21: k, d and j are undefined at every index below pk - 1 and up to the
\* first index whose window of pk bars is not flat (highest > lowest), and
\* defined from that index on; bbi is undefined below index 23 and defined
\* from index 23 on.
C21_WarmUpFromFirstRange ==
    /\ Computed =>
         \A i \in 1..Len(out.rows) :
            IF i < FirstDefined(df.rows, calculator.pk)
            THEN Undefined(i) ELSE Defined(i)
    /\ BBIComputed =>
         \A i \in 1..Len(bbi_line) : IsNaN(bbi_line[i]) <=> i < ma4

\* the first full window was flat and k, d, j became defined later
C21_Witness ==
    /\ Computed
    /\ Len(out.rows) > calculator.pk
    /\ Undefined(calculator.pk)
    /\ Defined(Len(out.rows))

\* C22 as stated: the computation on a bar sequence shorter than the warm-up
\* length fails with an error instead of returning a series.
C22_InsufficientDataError ==
    (/\ runs >= 1
     /\ required_cols \subseteq df.cols
     /\ Len(df.rows) < calculator.pk) => out.raised

\* C22: the computation on a bar sequence shorter than the warm-up length
\* raises no error and returns a series of the same length with k, d and j
\* undefined at every index.
C22_ShortSeriesUndefined ==
    (/\ runs >= 1
     /\ required_cols \subseteq df.cols
     /\ Len(df.rows) < calculator.pk) =>
        /\ ~out.raised
        /\ Len(out.rows) = Len(df.rows)
        /\ \A i \in 1..Len(out.rows) : Undefined(i)

\* a frame of fewer rows than pk came back as a series without values
C22_Witness ==
    /\ Computed
    /\ Len(df.rows) > 0
    /\ Len(df.rows) < calculator.pk
    /\ Len(out.rows) = Len(df.rows)

\* C23: wherever k and d are defined in the returned series, j = 3k - 2d
\* (stated as j - k = 2 (k - d)).
C23_JIdentity ==
    Computed =>
        \A i \in 1..Len(out.rows) :
            (~IsNaN(out.rows[i].k) /\ ~IsNaN(out.rows[i].d)) =>
                RSub(out.rows[i].j, out.rows[i].k)
                    = RMul(RInt(2), RSub(out.rows[i].k, out.rows[i].d))

\* a row where k and d are defined and differ
C23_Witness ==
    /\ Computed
    /\ \E i \in 1..Len(out.rows) :
          /\ ~IsNaN(out.rows[i].k)
          /\ ~IsNaN(out.rows[i].d)
          /\ out.rows[i].k # out.rows[i].d

\* C24: k is seeded with the first valid rsv and at every later bar where
\* rsv is defined, also after a bar with undefined rsv,
\* k[i] = alpha * rsv[i] + (1 - alpha) * k[i-1] with alpha = 1 / pd.
C24_PlainRecurrence ==
    Computed =>
        LET pk == calculator.pk
            alpha == Rat(1, calculator.pd)
            first == FirstDefined(df.rows, pk)
        IN  \A i \in 1..Len(out.rows) :
               /\ i = first => out.rows[i].k = RsvAt(df.rows, pk, i)
               /\ (i > first /\ ~IsNaN(RsvAt(df.rows, pk, i))) =>
                     out.rows[i].k =
                        RAdd(RMul(alpha, RsvAt(df.rows, pk, i)),
                             RMul(RSub(RInt(1), alpha), out.rows[i - 1].k))

C26_MalformedRejected ==
    (runs >= 1 /\ Malformed(df)) => (out.raised /\ out.rows = <<>>)

\* C26: such a bar history is not rejected: calculate raises no error and
\* returns k, d and j computed from it as from any other history.
C26_MalformedComputed ==
    (runs >= 1 /\ Malformed(df) /\ required_cols \subseteq df.cols) =>
        /\ ~out.raised
        /\ Len(out.rows) = Len(df.rows)
        /\ \A i \in 1..Len(out.rows) :
              i >= FirstDefined(df.rows, calculator.pk) => Defined(i)

\* indicator values came back for a history with a non-positive price and
\* repeated dates
C26_Witness ==
    /\ Computed
    /\ \E a \in 1..Len(df.rows) : df.rows[a].close <= 0
    /\ \E a, b \in 1..Len(df.rows) : a < b /\ df.rows[a].date = df.rows[b].date
    /\ \E i \in 1..Len(out.rows) : Defined(i)

\* C29: d is the exponential recurrence on k with smoothing factor
\* 1 / pdslow: a calculator that differs only in pdslow gives the same k and,
\* where k is not constant, a different d.
C29_SlowPeriod ==
    Computed =>
        LET ks == [i \in 1..Len(out.rows) |-> out.rows[i].k]
            ds == [i \in 1..Len(out.rows) |-> out.rows[i].d]
        IN  /\ ds = Ewm(ks, Rat(1, calculator.pdslow))
            /\ \A slow \in {3, 5} \ {calculator.pdslow} :
                 LET other == calculate(df, [calculator EXCEPT !.pdslow = slow])
                 IN  /\ \A i \in 1..Len(out.rows) : other.rows[i].k = ks[i]
                     /\ (\E a, b \in 1..Len(ks) :
                            ~IsNaN(ks[a]) /\ ~IsNaN(ks[b]) /\ ks[a] # ks[b])
                          => \E i \in 1..Len(ds) : other.rows[i].d # ds[i]

\* the sum of the period closes ending at bar i
WindowSum(xs, period, i) ==
    LET RECURSIVE Back(_)
        Back(t) == IF t <= i - period THEN 0 ELSE xs[t] + Back(t - 1)
    IN  Back(i)

\* C30: at every index i >= 23, bbi[i] is one quarter of the sum of the
\* simple moving averages of close over the last 3, 6, 12 and 24 bars
\* (stated over the common denominator 96).
C30_BBIMean ==
    BBIComputed =>
        \A i \in ma4..Len(bbi_line) :
            bbi_line[i].n * 96 =
                bbi_line[i].d * (8 * WindowSum(data, 3, i)
                                 + 4 * WindowSum(data, 6, i)
                                 + 2 * WindowSum(data, 12, i)
                                 + WindowSum(data, 24, i))

\* the BBI is defined on the last bars of a feed whose closes vary
C30_Witness ==
    /\ BBIComputed
    /\ Len(bbi_line) > ma4
    /\ ~IsNaN(bbi_line[Len(bbi_line)])
    /\ bbi_line[Len(bbi_line)] # bbi_line[ma4]

\* ------------------------------------------------- bars off their range
\* the bars of a history whose last price may lie off the bar's range: a
\* flat bar, close at the low, close at the high, and a flat bar with the
\* close above its high
RangeBars ==
    {[high |-> 2, low |-> 2, close |-> 2], [high |-> 3, low |-> 1, close |-> 1],
     [high |-> 3, low |-> 1, close |-> 3], [high |-> 2, low |-> 2, close |-> 3]}

\* the frames of at most n such rows
RangeFrames(n) ==
    UNION { {[cols |-> AllCols,
              rows |-> [i \in 1..len |->
                          [date |-> i, high |-> bs[i].high,
                           low |-> bs[i].low, close |-> bs[i].close]]] :
                bs \in [1..len -> RangeBars]} :
            len \in 0..n }

InitRange ==
    /\ StrategyInit
    /\ PickIdle
    /\ MvIdle
    /\ FetchIdle
    /\ MainIdle
    /\ calculator \in [pk : {2, 3}, pd : {3}, pdslow : {3}]
    /\ df \in RangeFrames(MaxBars)
    /\ data = <<>>
    /\ out = NoOut
    /\ runs = 0
    /\ bbi_line = <<>>

SpecRange == InitRange /\ [][Calculate]_vars

\* C31: the KDJ values at bar i depend only on bars 0..i: the series
\* computed on the prefix ending at bar i has the k, d and j at bar i of the
\* series computed on the whole sequence (every proper prefix is computed
\* anew; the whole sequence is its own last prefix).
C31_PrefixAgrees ==
    Computed =>
        \A n \in 1..(Len(out.rows) - 1) :
            LET prefix == calculate([df EXCEPT !.rows = SubSeq(df.rows, 1, n)],
                                    calculator)
            IN  /\ prefix.rows[n].k = out.rows[n].k
                /\ prefix.rows[n].d = out.rows[n].d
                /\ prefix.rows[n].j = out.rows[n].j

\* a series of four bars or more whose k is defined and moves before its end
C31_Witness ==
    /\ Computed
    /\ Len(out.rows) >= 4
    /\ Defined(calculator.pk)
    /\ \E i \in 1..(Len(out.rows) - 1) :
          Defined(i) /\ out.rows[i].k # out.rows[i + 1].k

\* C32: when highest == lowest over the pk-window at bar i after k has been
\* seeded, k[i] holds the previous value k[i-1] or is undefined, and is never
\* infinite.
C32_FlatWindowHeld ==
    Computed =>
        \A i \in (calculator.pk + 1)..Len(out.rows) :
            (/\ FlatWindow(df.rows, calculator.pk, i)
             /\ \E t \in 1..(i - 1) : ~IsNaN(out.rows[t].k)) =>
                /\ out.rows[i].k = out.rows[i - 1].k \/ IsNaN(out.rows[i].k)
                /\ ~IsInf(out.rows[i].k)

\* ===================================================================
\* Further properties of the strategy
\* ===================================================================
\* C34: partial_sell_done (sell_count > 0) holds only if a partial-trim sell
\* of positive size has filled during the current position; stated by what
\* that needs: a trim order has been made for this position, and it is not
\* the order made on the bar just evaluated, which nothing has filled yet.
C34_FlagOnlyAfterTrimFill ==
    sell_count > 0 =>
        /\ trims > 0
        /\ ~(IsBar /\ last.rule = "partial-trim")

\* C36: the strategy never issues a buy while position_size is non-zero:
\* every entry is made on a bar that finds and leaves position_size at 0, so
\* a buy that fills after another buy has filled was made after
\* position_size had returned to 0.
C36_BuyOnlyWhenFlat ==
    (IsBar /\ last.rule = "entry") =>
        /\ pre.position = 0
        /\ position = 0
        /\ last.issued
        /\ Alive = pre.norders + 1

\* an entry was made while the rest of an earlier, partly filled order was
\* still alive, the position having returned to 0
C36_Witness ==
    /\ IsBar
    /\ last.rule = "entry"
    /\ last.issued
    /\ pre.norders = 1
    /\ position = 0

\* C37: after every bar evaluation days_above_bbi and days_below_bbi are not
\* both positive, days_below_bbi > 0 implies that a position was open and
\* sell_count > 0 at that evaluation, and the partial-trim and trend-exit
\* conditions do not both hold.
C37_CountersExclusive ==
    Evaluated =>
        /\ ~(days_above_bbi > 0 /\ days_below_bbi > 0)
        /\ days_below_bbi > 0 => (pre.position # 0 /\ pre.sell_count > 0)
        /\ ~(TrimCond /\ TrendCond)

\* the price fell below the BBI after days above it, with the trim done
C37_Witness ==
    /\ Evaluated
    /\ pre.days_above_bbi > 0
    /\ days_below_bbi > 0
    /\ days_above_bbi = 0

\* ===================================================================
\* The strategy of src/run/mv.py and the broker that runs its orders
\* ===================================================================
\* the most orders the strategy of mv.py makes
MaxMvOrders == 6

\* sizes the sizer gives a buy
MvBuySizes == {1, 2}

\* marks the end of the notifications of a bar in mv_notes
EndOfBar == [id |-> 0, status |-> "EndOfBar", isbuy |-> FALSE]

MvOrder(id, kind, size) == [id |-> id, kind |-> kind, size |-> size]

MvNote(o, status) == [id |-> o.id, status |-> status, isbuy |-> o.kind = "buy"]

\* the broker goes through its pending orders, oldest first, on a new bar:
\* a market order executes, a buy unless cash is short, and a stop order
\* executes when the bar trades at its price. Selling is not limited to the
\* position held.
RECURSIVE MvExec(_, _, _, _)
MvExec(ords, pos, trigger, cash) ==
    IF ords = <<>> THEN [position |-> pos, pending |-> <<>>, notes |-> <<>>]
    ELSE LET o == Head(ords)
             fills == \/ o.kind = "buy" /\ cash
                      \/ o.kind = "sell"
                      \/ o.kind = "stop" /\ trigger
             stays == o.kind = "stop" /\ ~trigger
             after == IF ~fills THEN pos
                      ELSE IF o.kind = "buy" THEN pos + o.size
                      ELSE pos - o.size
             rest == MvExec(Tail(ords), after, trigger, cash)
         IN  [position |-> rest.position,
              pending |-> IF stays THEN <<o>> \o rest.pending
                          ELSE rest.pending,
              notes |-> IF stays THEN rest.notes
                        ELSE <<MvNote(o, IF fills THEN "Completed"
                                         ELSE "Margin")>> \o rest.notes]

MvFrame ==
    /\ UNCHANGED stratvars
    /\ UNCHANGED scenvars
    /\ UNCHANGED pickvars
    /\ UNCHANGED indvars
    /\ UNCHANGED <<fetchvars, mainvars>>

\* the broker runs the pending orders on the next bar
MvBroker ==
    /\ mv_phase = "broker"
    /\ \E trigger \in BOOLEAN, cash \in BOOLEAN :
         LET done == MvExec(mv_pending, mv_position, trigger, cash) IN
         /\ mv_position' = done.position
         /\ mv_pending' = done.pending
         /\ mv_notes' = mv_notes \o done.notes \o <<EndOfBar>>
    /\ mv_phase' = "strategy"
    /\ UNCHANGED <<mv_order, mv_stoporder, mv_days_above_bbi, mv_ids>>
    /\ MvFrame

\* line 80: a completed buy places the stop order
StopOnBuy(n) == n.status = "Completed" /\ n.isbuy

\* the sizer's size of a sell: the position held
MvSellSize == IF mv_position # 0 THEN Abs(mv_position) ELSE 1

\* mv.py lines 60-104: notify_order for the oldest queued notification
MvNotify ==
    /\ mv_phase = "strategy"
    /\ mv_notes # <<>>
    /\ Head(mv_notes) # EndOfBar
    /\ LET n == Head(mv_notes)
           stop == MvOrder(mv_ids + 1, "stop", MvSellSize)
           held == {i \in 1..Len(mv_pending) : mv_pending[i].id = mv_stoporder}
       IN
       IF n.status = "Accepted"
       THEN /\ mv_notes' = Tail(mv_notes)
            /\ UNCHANGED <<mv_order, mv_stoporder, mv_pending, mv_ids>>
       ELSE /\ mv_order' = MvNone
            /\ IF StopOnBuy(n)
               THEN /\ mv_ids < MaxMvOrders
                    /\ mv_stoporder' = stop.id
                    /\ mv_pending' = Append(mv_pending, stop)
                    /\ mv_notes' = Tail(mv_notes) \o <<MvNote(stop, "Accepted")>>
                    /\ mv_ids' = mv_ids + 1
               ELSE IF n.status = "Completed" /\ mv_stoporder # MvNone
               THEN \* lines 89-92: cancel the stop order, if the broker
                    \* still holds it
                    /\ mv_stoporder' = MvNone
                    /\ mv_pending' = SelectSeq(mv_pending,
                                        LAMBDA o : o.id # mv_stoporder)
                    /\ mv_notes' =
                         Tail(mv_notes) \o
                         [i \in 1..Cardinality(held) |->
                            [id |-> mv_stoporder, status |-> "Canceled",
                             isbuy |-> FALSE]]
                    /\ mv_ids' = mv_ids
               ELSE /\ mv_stoporder' =
                         IF n.status \in {"Canceled", "Margin", "Rejected"}
                            /\ n.id = mv_stoporder
                         THEN MvNone ELSE mv_stoporder
                    /\ mv_notes' = Tail(mv_notes)
                    /\ UNCHANGED <<mv_pending, mv_ids>>
    /\ UNCHANGED <<mv_days_above_bbi, mv_position, mv_phase>>
    /\ MvFrame

\* mv.py lines 113-140: next() on the bar, after its notifications
MvNext ==
    /\ mv_phase = "strategy"
    /\ mv_notes # <<>>
    /\ Head(mv_notes) = EndOfBar
    /\ \E above \in BOOLEAN, jneg \in BOOLEAN, size \in MvBuySizes :
         LET days == IF above THEN mv_days_above_bbi + 1 ELSE 0
             buys == mv_position = 0 /\ jneg
             sells == mv_position # 0 /\ days >= TrendDays
             made == MvOrder(mv_ids + 1, IF buys THEN "buy" ELSE "sell",
                             IF buys THEN size ELSE MvSellSize)
         IN
         IF mv_order # MvNone
         THEN /\ mv_notes' = Tail(mv_notes)
              /\ UNCHANGED <<mv_order, mv_days_above_bbi, mv_pending, mv_ids>>
         ELSE /\ days <= MaxDays
              /\ mv_days_above_bbi' = days
              /\ IF buys \/ sells
                 THEN /\ mv_ids < MaxMvOrders
                      /\ mv_order' = made.id
                      /\ mv_pending' = Append(mv_pending, made)
                      /\ mv_notes' = Tail(mv_notes) \o <<MvNote(made, "Accepted")>>
                      /\ mv_ids' = mv_ids + 1
                 ELSE /\ mv_notes' = Tail(mv_notes)
                      /\ UNCHANGED <<mv_order, mv_pending, mv_ids>>
    /\ mv_phase' = "broker"
    /\ UNCHANGED <<mv_stoporder, mv_position>>
    /\ MvFrame

\* the first bar: nothing at the broker, next() comes first
InitMv ==
    /\ StrategyInit
    /\ PickIdle
    /\ IndIdle
    /\ FetchIdle
    /\ MainIdle
    /\ mv_order = MvNone
    /\ mv_stoporder = MvNone
    /\ mv_days_above_bbi = 0
    /\ mv_position = 0
    /\ mv_pending = <<>>
    /\ mv_notes = <<EndOfBar>>
    /\ mv_phase = "strategy"
    /\ mv_ids = 0

NextMv == MvBroker \/ MvNotify \/ MvNext

SpecMv == InitMv /\ [][NextMv]_vars

\* C35: in the strategy of mv.py position_size never becomes negative: the
\* stop order and a discretionary sell of the same position never both fill.
C35_MvPositionNonNegative == mv_position >= 0

\* ===================================================================
\* main of src/run/shaofu_pick.py
\* ===================================================================
\* line 112: the parameters pick_stocks takes besides self
pick_stocks_params == {}

\* line 243: the keyword arguments main passes to pick_stocks
main_kwargs == {"j_threshold"}

\* a call binds when every keyword it passes is a parameter; otherwise
\* Python raises TypeError before the body runs
Binds(kwargs, params) == kwargs \subseteq params

\* lines 239-240 and 29-42: StockPicker() raises FileNotFoundError without
\* the data directory, which the except of line 258 catches
MainStart ==
    /\ main_pc = "idle"
    /\ main_pc' = IF data_dir.exists THEN "constructed" ELSE "error"
    /\ UNCHANGED data_dir
    /\ UNCHANGED pickvars
    /\ UNCHANGED stratvars
    /\ UNCHANGED scenvars
    /\ UNCHANGED indvars
    /\ UNCHANGED <<mvvars, fetchvars>>

\* line 243: picker.pick_stocks(j_threshold=0.0); a TypeError of the call
\* ends main in the except branch of lines 258-260, otherwise pick_stocks
\* starts on the sorted files of the directory
MainCall ==
    /\ main_pc = "constructed"
    /\ IF Binds(main_kwargs, pick_stocks_params)
       THEN /\ main_pc' = "picking"
            /\ stock_files' = sorted(data_dir.files)
            /\ pick_pc' = IF data_dir.files = {} THEN "returned" ELSE "loop"
            /\ file_idx' = 0
            /\ selected_stocks' = <<>>
            /\ UNCHANGED <<stock_info, conditions, df_results, txt_lines>>
       ELSE /\ main_pc' = "error"
            /\ UNCHANGED pickvars
    /\ UNCHANGED data_dir
    /\ UNCHANGED stratvars
    /\ UNCHANGED scenvars
    /\ UNCHANGED indvars
    /\ UNCHANGED <<mvvars, fetchvars>>

\* main is started on a data directory, or without one
InitMain ==
    /\ StrategyInit
    /\ PickIdle
    /\ IndIdle
    /\ MvIdle
    /\ FetchIdle
    /\ main_pc = "idle"
    /\ \/ data_dir = [exists |-> FALSE, files |-> {}]
       \/ \E files \in Universes(Contents(PickVolumes, PickKDs), MaxFiles) :
            data_dir = [exists |-> TRUE, files |-> files]

NextMain == MainStart \/ MainCall

SpecMain == InitMain /\ [][NextMain]_vars

\* a file of the directory passes both tiers of the screen
PassesBothTiers(f) ==
    LET info == process_stock_file(f)
    IN  ~info.none /\ Selected(Conditions(info))

\* C38: main on a data directory with at least one symbol passing both
\* tiers invokes pick_stocks successfully and goes on towards save_results;
\* it does not end in its error branch.
C38_MainPicks ==
    (/\ data_dir.exists
     /\ \E f \in data_dir.files : PassesBothTiers(f)
     /\ main_pc \notin {"idle", "constructed"}) =>
        /\ main_pc # "error"
        /\ pick_pc # "idle"

\* ===================================================================
\* The downloader of src/data_api/fetcher.py
\* ===================================================================
\* the most tickers of a symbol list
MaxTickers == 3

\* the most threads of the pool of a direct call
MaxWorkers == 2

\* the ticker symbols of the lists
TickerNames == {"AAA", "BBB"}

\* the symbol lists: at most n tickers, a ticker may be listed twice
TickerLists(n) == UNION {[1..len -> TickerNames] : len \in 0..n}

\* line 98: max_workers = 1 in main
main_max_workers == 1

\* lines 51-54: one future per ticker, in the order of the list, each a
\* submitted task that no thread has taken yet
Submitted(list) ==
    [i \in 1..Len(list) |->
        [state |-> "queued", raised |-> FALSE, success |-> FALSE,
         collected |-> FALSE]]

\* the worker function without its try/except: the error of the download
\* stays in the future
download_stock_data_threaded_NoCatch(ok) ==
    [raised |-> ~ok, success |-> ok]

\* lines 11-29: download_stock_data_threaded returns (ticker, True, None),
\* or (ticker, False, message) when download_stock_data raised an Exception
download_stock_data_threaded(ok) ==
    [raised |-> FALSE, success |-> ok]

\* the second call downloading the whole list again
SecondRound_All(successful, failed) == successful \o failed

\* line 115: the tickers of the second call of main
SecondRound(successful, failed) == failed

InCall == fetch_pc \in {"call", "round1", "round2"}

FetchFrame ==
    /\ UNCHANGED stratvars
    /\ UNCHANGED scenvars
    /\ UNCHANGED pickvars
    /\ UNCHANGED indvars
    /\ UNCHANGED <<mvvars, mainvars>>

\* lines 41-54 (for main after lines 84-101): the lists are created and
\* every ticker is submitted to the pool
Submit ==
    /\ fetch_pc \in {"direct", "main"}
    /\ fetch_pc' = IF fetch_pc = "direct" THEN "call" ELSE "round1"
    /\ tickers' = csv_tickers
    /\ futures' = Submitted(csv_tickers)
    /\ successful_symbols' = <<>>
    /\ failed_symbols' = <<>>
    /\ completed' = 0
    /\ actor' = "caller"
    /\ UNCHANGED <<max_workers, csv_tickers, downloads>>
    /\ FetchFrame

\* a free thread of the pool takes the oldest queued task
WorkerStart ==
    /\ InCall
    /\ Cardinality({i \in 1..Len(futures) : futures[i].state = "running"})
         < max_workers
    /\ \E i \in 1..Len(futures) :
         /\ futures[i].state = "queued"
         /\ \A t \in 1..(i - 1) : futures[t].state # "queued"
         /\ futures' = [futures EXCEPT ![i].state = "running"]
    /\ actor' = "worker"
    /\ UNCHANGED <<tickers, successful_symbols, failed_symbols, completed,
                   max_workers, fetch_pc, csv_tickers, downloads>>
    /\ FetchFrame

\* lines 21-29 in a worker thread: the download ends well or with an error
WorkerFinish ==
    /\ InCall
    /\ \E i \in 1..Len(futures), ok \in BOOLEAN :
         LET result == download_stock_data_threaded(ok) IN
         /\ futures[i].state = "running"
         /\ futures' = [futures EXCEPT ![i] =
                          [state |-> "done", raised |-> result.raised,
                           success |-> result.success, collected |-> FALSE]]
         /\ downloads' = downloads (+)
                SetToBag({[round |-> IF fetch_pc = "round2" THEN 2 ELSE 1,
                           ticker |-> tickers[i], ok |-> ok]})
    /\ actor' = "worker"
    /\ UNCHANGED <<tickers, successful_symbols, failed_symbols, completed,
                   max_workers, fetch_pc, csv_tickers>>
    /\ FetchFrame

\* lines 58-73 in the calling thread: one pass of the as_completed loop;
\* future.result() raises what the worker function raised
Collect ==
    /\ InCall
    /\ \E i \in 1..Len(futures) :
         /\ futures[i].state = "done"
         /\ ~futures[i].collected
         /\ IF futures[i].raised
            THEN /\ fetch_pc' = "call_raised"
                 /\ UNCHANGED <<futures, successful_symbols, failed_symbols,
                                completed>>
            ELSE /\ futures' = [futures EXCEPT ![i].collected = TRUE]
                 /\ completed' = completed + 1
                 /\ successful_symbols' =
                      IF futures[i].success
                      THEN Append(successful_symbols, tickers[i])
                      ELSE successful_symbols
                 /\ failed_symbols' =
                      IF futures[i].success THEN failed_symbols
                      ELSE Append(failed_symbols, tickers[i])
                 /\ UNCHANGED fetch_pc
    /\ actor' = "caller"
    /\ UNCHANGED <<tickers, max_workers, csv_tickers, downloads>>
    /\ FetchFrame

\* lines 75-78: the loop has seen every future and the call returns. In main
\* the summary of lines 103-113 follows, whose percentages divide by
\* total_symbols, and the second call of line 115 on the failed tickers; the
\* second return is followed by the summary of lines 116-132.
Return ==
    /\ InCall
    /\ completed = Len(tickers)
    /\ actor' = "caller"
    /\ IF fetch_pc = "round1" /\ Len(csv_tickers) # 0
       THEN LET again == SecondRound(successful_symbols, failed_symbols) IN
            /\ fetch_pc' = "round2"
            /\ tickers' = again
            /\ futures' = Submitted(again)
            /\ successful_symbols' = <<>>
            /\ failed_symbols' = <<>>
            /\ completed' = 0
       ELSE /\ fetch_pc' = IF fetch_pc = "call" THEN "returned"
                           ELSE IF fetch_pc = "round1" THEN "main_raised"
                           ELSE "done"
            /\ UNCHANGED <<tickers, futures, successful_symbols,
                           failed_symbols, completed>>
    /\ UNCHANGED <<max_workers, csv_tickers, downloads>>
    /\ FetchFrame

\* a direct call of download_stocks_multithreaded with some pool size, or
\* main with the list it read
InitFetch ==
    /\ StrategyInit
    /\ PickIdle
    /\ IndIdle
    /\ MvIdle
    /\ MainIdle
    /\ csv_tickers \in TickerLists(MaxTickers)
    /\ \/ fetch_pc = "direct" /\ max_workers \in 1..MaxWorkers
       \/ fetch_pc = "main" /\ max_workers = main_max_workers
    /\ tickers = <<>>
    /\ futures = <<>>
    /\ successful_symbols = <<>>
    /\ failed_symbols = <<>>
    /\ completed = 0
    /\ downloads = EmptyBag
    /\ actor = "caller"

NextFetch == Submit \/ WorkerStart \/ WorkerFinish \/ Collect \/ Return

SpecFetch == InitFetch /\ [][NextFetch]_vars

\* every thread that can take a step takes one, and every download ends
SpecFetchFair == SpecFetch /\ WF_vars(NextFetch)

\* how often x is in the list
Occurrences(list, x) == Cardinality({i \in 1..Len(list) : list[i] = x})

\* the futures the loop has collected with the given outcome
CollectedOf(x, success) ==
    Cardinality({i \in 1..Len(futures) :
                    /\ futures[i].collected
                    /\ futures[i].success = success
                    /\ tickers[i] = x})

\* C33: in download_stocks_multithreaded, for every interleaving of worker
\* completions and every pattern of download failures, the call does not
\* raise and each submitted ticker appears exactly once in exactly one of
\* successful_symbols and failed_symbols (their lengths sum to the number of
\* tickers at the return); only the calling thread changes the two lists.
C33_Partition ==
    /\ [](/\ fetch_pc # "call_raised"
          /\ (InCall \/ fetch_pc = "returned") =>
               /\ \A x \in TickerNames :
                    /\ Occurrences(successful_symbols, x) = CollectedOf(x, TRUE)
                    /\ Occurrences(failed_symbols, x) = CollectedOf(x, FALSE)
               /\ Len(successful_symbols) + Len(failed_symbols) = completed
          /\ fetch_pc = "returned" =>
               /\ completed = Len(tickers)
               /\ \A i \in 1..Len(futures) : futures[i].collected)
    /\ [][(\/ successful_symbols' # successful_symbols
           \/ failed_symbols' # failed_symbols) => actor' = "caller"]_vars

\* a call with two threads returned with a ticker in each list
C33_Witness ==
    /\ fetch_pc = "returned"
    /\ max_workers = 2
    /\ successful_symbols # <<>>
    /\ failed_symbols # <<>>
    /\ Len(tickers) = MaxTickers

\* download attempts of ticker x made in round r
Attempts(r, x) ==
    CopiesIn([round |-> r, ticker |-> x, ok |-> TRUE], downloads)
    + CopiesIn([round |-> r, ticker |-> x, ok |-> FALSE], downloads)

\* failed download attempts of ticker x made in round r
Failures(r, x) ==
    CopiesIn([round |-> r, ticker |-> x, ok |-> FALSE], downloads)

MainEnded == fetch_pc \in {"done", "main_raised"}

\* C39: in fetcher.main every listed ticker is attempted once in the first
\* round and a second time only if its first attempt failed, so at most
\* twice, and main terminates.
C39_AtMostTwiceAndEnds ==
    /\ [](\A x \in TickerNames :
            /\ Attempts(1, x) <= Occurrences(csv_tickers, x)
            /\ Attempts(2, x) <= Failures(1, x)
            /\ fetch_pc = "done" =>
                 /\ Attempts(1, x) = Occurrences(csv_tickers, x)
                 /\ Attempts(2, x) = Failures(1, x))
    /\ (fetch_pc = "main") ~> MainEnded

\* main ended with one ticker downloaded once and another twice
C39_Witness ==
    /\ fetch_pc = "done"
    /\ \E x, y \in TickerNames :
         /\ Attempts(1, x) = 1 /\ Attempts(2, x) = 0
         /\ Attempts(1, y) = 1 /\ Attempts(2, y) = 1

====
